---- MODULE Spec2Model ----
(***************************************************************************)
(* Lead enrichment pipeline: website crawl with search-engine fallback     *)
(* (execution/extract_website_contacts.py) and the Google Maps pipeline    *)
(* that fans the crawl out over a thread pool, flattens the results into   *)
(* lead records and appends the new ones to a sheet                        *)
(* (execution/gmaps_lead_pipeline.py).                                     *)
(*                                                                         *)
(* Strings whose characters matter (names, addresses, URLs, e-mail         *)
(* addresses) are sequences of tokens, so that lowercasing, prefix and     *)
(* suffix tests are computed rather than looked up.  Messages and tags     *)
(* that the code only passes around are TLA+ strings.                      *)
(***************************************************************************)
EXTENDS Integers, Sequences, FiniteSets, TLC

VARIABLES
    \* ---- one call of scrape_website_contacts ----
    url, business_name, spc, collected_emails, collected_socials, pages_scraped,
    search_enriched, sub_pages, home_fetch, home_anchors, found_pages, fetch_log,
    crawl_emails, queries, found_log, search_log, ret,
    \* ---- one call of run_pipeline ----
    businesses, workers, sheet, sheet0, ppc, task, future, enriched,
    leads, output_csv, csv_file, existing_ids, append_calls, store_ops, results,
    \* ---- one row of repair_missing_emails ----
    repair_row, rpc, cell_updates, repaired_count

scrapeVars == <<url, business_name, spc, collected_emails, collected_socials,
                pages_scraped, search_enriched, sub_pages, home_fetch, home_anchors,
                found_pages, fetch_log, crawl_emails, queries, found_log, search_log, ret>>

pipeVars == <<businesses, workers, sheet, sheet0, ppc, task, future, enriched,
              leads, output_csv, csv_file, existing_ids, append_calls, store_ops,
              results>>

repairVars == <<repair_row, rpc, cell_updates, repaired_count>>

vars == <<scrapeVars, pipeVars, repairVars>>

(***************************************************************************)
(* Bounds of the model                                                     *)
(***************************************************************************)
MaxBusinesses == 2
MaxWorkers == 2
MaxLeads == 5
MaxSnippets == 2

MaxAnchors == 2

(***************************************************************************)
(* Strings                                                                 *)
(***************************************************************************)
\* str.lower() on one token: the tokens with an upper-case letter
LowerTok(t) ==
    CASE t = "A" -> "a"
      [] t = "B" -> "b"
      [] t = "X" -> "x"
      [] t = "Hello" -> "hello"
      [] t = "Name" -> "name"
      [] t = "Example" -> "example"
      [] t = ".PNG" -> ".png"
      [] t = ".COM" -> ".com"
      [] t = "/Contact" -> "/contact"
      [] t = "/About" -> "/about"
      [] t = "Facebook" -> "facebook"
      [] t = "LinkedIn" -> "linkedin"
      [] OTHER -> t

Lower(s) == [i \in DOMAIN s |-> LowerTok(s[i])]

\* dict.get(key, default)
Get(d, k, default) == IF k \in DOMAIN d THEN d[k] ELSE default

Min(a, b) == IF a < b THEN a ELSE b

\* the lists with n distinct elements of S: list(a_set)[:n]
ListsOf(S, n) ==
    {s \in [1..n -> S] : \A i, j \in 1..n : i # j => s[i] # s[j]}

(***************************************************************************)
(* extract_website_contacts.py: the extractors                             *)
(***************************************************************************)
IGNORED_EXTS == {".png", ".jpg", ".jpeg", ".gif", ".css", ".js", ".svg",
                 ".woff", ".mp4", ".pdf", ".zip"}

PLACEHOLDER_EMAILS == { <<"name", "@", "example", ".com">>,
                        <<"email", "@", "address", ".com">>,
                        <<"you", "@", "yourdomain", ".com">> }

\* email_lower.endswith(ext): the last token of an address is its extension
EndsWithIgnoredExt(email_lower) ==
    Len(email_lower) > 0 /\ email_lower[Len(email_lower)] \in IGNORED_EXTS

\* lines 30-35 with the tests applied to the address as written
extract_emails_as_written(text) ==
    {email \in text :
        /\ ~EndsWithIgnoredExt(email)
        /\ email \notin PLACEHOLDER_EMAILS}

\* A text is the set of its substrings that match email_pattern.
extract_emails(text) ==
    {email \in text :
        /\ ~EndsWithIgnoredExt(Lower(email))
        /\ Lower(email) \notin PLACEHOLDER_EMAILS}

\* An href is its host ("" when relative) and the tokens of the rest.
HrefTokens(href) == <<href.host>> \o href.path

PLATFORMS == {"facebook", "twitter", "linkedin", "instagram", "youtube", "tiktok"}

\* platform in a['href'].lower()
HrefContains(href, platform) ==
    \E i \in DOMAIN HrefTokens(href) : LowerTok(HrefTokens(href)[i]) = platform

NoSocials == [p \in {} |-> [host |-> "", path |-> <<>>]]

\* lines 50-52 without the test "platform not in socials"
RecordPlatformsOverwriting(socials, a) ==
    [p \in {q \in PLATFORMS : HrefContains(a, q)} |-> a] @@ socials

\* lines 50-52: one anchor is recorded for each platform it names and that
\* has no entry yet
RecordPlatforms(socials, a) ==
    socials @@ [p \in {q \in PLATFORMS : HrefContains(a, q) /\ q \notin DOMAIN socials} |-> a]

\* lines 48-52: the loop over the anchors in document order
RECURSIVE SocialsFrom(_, _)
SocialsFrom(anchors, socials) ==
    IF anchors = <<>>
    THEN socials
    ELSE SocialsFrom(Tail(anchors), RecordPlatforms(socials, Head(anchors)))

extract_social_media(anchors) == SocialsFrom(anchors, NoSocials)

Range(seq) == {seq[i] : i \in DOMAIN seq}

CONTACT_KEYWORDS == {"/contact", "/about", "/team", "/staff", "/people", "/leadership"}

MAX_SUB_PAGES == 4

\* urljoin(base_url, href): an href without a host is relative to base_url
UrlJoin(base_host, href) ==
    IF href.host = "" THEN [host |-> base_host, path |-> href.path] ELSE href

\* get_contact_pages without the netloc test of lines 69-70
get_contact_pages_any_host(links, base_host) ==
    LET pages == {full_url \in {UrlJoin(base_host, h) : h \in links} :
                    \E i \in DOMAIN full_url.path :
                          LowerTok(full_url.path[i]) \in CONTACT_KEYWORDS}
    IN  ListsOf(pages, Min(Cardinality(pages), MAX_SUB_PAGES))

\* get_contact_pages: the internal links with a keyword in the path, as a
\* set, of which list(pages)[:4] keeps any four in any order
get_contact_pages(links, base_host) ==
    LET pages == {full_url \in {UrlJoin(base_host, h) : h \in links} :
                    /\ full_url.host = base_host
                    /\ \E i \in DOMAIN full_url.path :
                          LowerTok(full_url.path[i]) \in CONTACT_KEYWORDS}
    IN  ListsOf(pages, Min(Cardinality(pages), MAX_SUB_PAGES))

\* search_duckduckgo: the union of extract_emails over the snippets' bodies;
\* an empty list when the library is missing or the search raises
search_duckduckgo(response) ==
    IF response.kind = "results"
    THEN UNION {extract_emails(response.bodies[i]) : i \in DOMAIN response.bodies}
    ELSE {}

GeneralQuery(name) == <<"general", name, " email contact">>

SocialQuery(name) ==
    <<"social", "site:facebook.com OR site:instagram.com OR site:linkedin.com", name, " email">>

(***************************************************************************)
(* The outside world of one crawl: page responses, search responses        *)
(***************************************************************************)
E_HELLO == <<"Hello", "@", "a", ".biz">>
E_INFO == <<"info", "@", "a", ".biz">>
E_LOGO == <<"logo", "@", "site", ".PNG">>
E_NAME == <<"Name", "@", "Example", ".COM">>

PageTexts == { {}, {E_HELLO}, {E_INFO, E_LOGO}, {E_LOGO, E_NAME} }

L_CONTACT == [host |-> "", path |-> <<"/Contact">>]
L_ABOUT == [host |-> "a.biz", path |-> <<"/shop", "/about">>]
L_BLOG == [host |-> "", path |-> <<"/blog">>]
L_EXTERNAL == [host |-> "fb.com", path |-> <<"/contact">>]

L_CONTACT_ABS == [host |-> "a.biz", path |-> <<"/Contact">>]
L_TEAM == [host |-> "", path |-> <<"/team">>]
L_STAFF == [host |-> "", path |-> <<"/staff">>]
L_PEOPLE == [host |-> "", path |-> <<"/people">>]
S_FB == [host |-> "social.net", path |-> <<"Facebook", "/acme">>]
S_FB2 == [host |-> "social.net", path |-> <<"facebook", "/other">>]
S_LI_FB == [host |-> "social.net", path |-> <<"LinkedIn", "facebook">>]
S_TW == [host |-> "", path |-> <<"/go", "twitter">>]

\* the anchors of a fetched page, in document order
ScrapeAnchorLists ==
    { <<>>,
      <<L_CONTACT, L_BLOG, L_EXTERNAL>>,
      <<S_FB, L_CONTACT, S_LI_FB, L_ABOUT, S_FB2>>,
      <<L_CONTACT, L_CONTACT_ABS, L_TEAM, S_TW, L_STAFF, L_ABOUT>> }

\* what client.get can end in: an exception, or a response with a status
PageResponses ==
    {[kind |-> "network_error"]}
    \cup [kind : {"http"}, status : {200, 404}, text : PageTexts,
          anchors : ScrapeAnchorLists]

\* a sub-page is read for its text only (lines 148-149)
SubPageResponses == {resp \in PageResponses : resp.kind = "http" => resp.anchors = <<>>}

SnippetLists == UNION {[1..n -> PageTexts] : n \in 0..MaxSnippets}

SearchResponses ==
    {[kind |-> "import_error"], [kind |-> "failed"]}
    \cup [kind : {"results"}, bodies : SnippetLists]

\* str(e) of an exception
ExcMsgs == {"", "boom"}

ScrapeUrls == { <<>>, <<"a.biz">>, <<"http://", "a.biz">> }
ScrapeNames == { <<>>, <<"Acme">> }

(***************************************************************************)
(* scrape_website_contacts                                                 *)
(***************************************************************************)
NoRet == [pending |-> TRUE]

NoUrlReturn == [error |-> "No URL provided"]

\* the dict returned at step 4
NormalReturn(emails, socials, pages, flag) ==
    [emails |-> emails, social_media |-> socials, owner_info |-> <<>>,
     team_members |-> {}, phone_numbers |-> {}, business_hours |-> "",
     additional_contacts |-> {}, _pages_scraped |-> pages,
     _search_enriched |-> flag]

\* the dict returned by the outer except
ErrorReturn(msg, emails, pages) ==
    [error |-> msg, emails |-> emails, _pages_scraped |-> pages]

StartsWithHttp(u) == Len(u) > 0 /\ u[1] = "http://"

NormalizeUrl(u) == IF StartsWithHttp(u) THEN u ELSE <<"http://">> \o u

\* urlparse(url).netloc
UrlHost(u) == u[Len(u)]

\* the page of url itself
HomeLink(u) == [host |-> UrlHost(u), path |-> <<>>]

FetchEntry(page, resp) ==
    [page |-> page,
     outcome |-> IF resp.kind = "http"
                 THEN (IF resp.status < 400 THEN "ok" ELSE "http_error")
                 ELSE "network_error"]

\* lines 110-123: the guard on url, the scheme prefix, the initial locals
ScrapeEntry ==
    /\ spc = "entry"
    /\ IF url = <<>>
       THEN /\ ret' = NoUrlReturn
            /\ spc' = "returned"
            /\ url' = url
       ELSE /\ url' = NormalizeUrl(url)
            /\ spc' = "client"
            /\ ret' = ret
    /\ UNCHANGED <<business_name, collected_emails, collected_socials, pages_scraped,
                   search_enriched, sub_pages, home_fetch, home_anchors, found_pages,
                   fetch_log, crawl_emails, queries, found_log, search_log>>
    /\ UNCHANGED pipeVars
    /\ UNCHANGED repairVars

\* the try of line 125 without its except of line 190
ExceptClauseNoOuter(site) ==
    CASE site = "home" -> "home"
      [] site = "sub" -> "sub"
      [] OTHER -> "none"

\* the except clause that an exception raised at a site lands in: line 190
\* for the client, line 154 for the home page, line 151 for a sub-page
ExceptClauseOf(site) ==
    CASE site = "client" -> "outer"
      [] site = "home" -> "home"
      [] site = "sub" -> "sub"
      [] OTHER -> "none"

\* line 126: httpx.Client(...) is entered, or raises into the outer except
OpenClient ==
    /\ spc = "client"
    /\ \/ /\ spc' = "home"
          /\ ret' = ret
       \/ \E msg \in ExcMsgs :
            IF ExceptClauseOf("client") = "outer"
            THEN /\ ret' = ErrorReturn(msg, collected_emails, pages_scraped)
                 /\ spc' = "returned"
            ELSE /\ ret' = ret
                 /\ spc' = "raised"
    /\ UNCHANGED <<url, business_name, collected_emails, collected_socials, pages_scraped,
                   search_enriched, sub_pages, home_fetch, home_anchors, found_pages,
                   fetch_log, crawl_emails, queries, found_log, search_log>>
    /\ UNCHANGED pipeVars
    /\ UNCHANGED repairVars

\* lines 130-143 and 154-155: the home page
FetchHome ==
    /\ spc = "home"
    /\ \E resp \in PageResponses :
         /\ fetch_log' = Append(fetch_log, FetchEntry(HomeLink(url), resp))
         /\ IF resp.kind = "http" /\ resp.status < 400
            THEN \E subs \in get_contact_pages(Range(resp.anchors), UrlHost(url)) :
                   /\ pages_scraped' = pages_scraped + 1
                   /\ collected_emails' = collected_emails \cup extract_emails(resp.text)
                   /\ collected_socials' = extract_social_media(resp.anchors) @@ collected_socials
                   /\ crawl_emails' = collected_emails'
                   /\ home_anchors' = resp.anchors
                   /\ sub_pages' = subs
                   /\ found_pages' = subs
                   /\ home_fetch' = "ok"
                   /\ spc' = IF subs = <<>> THEN "general" ELSE "sub"
            ELSE /\ home_fetch' = "failed"
                 /\ spc' = IF ExceptClauseOf("home") = "home" THEN "general" ELSE "raised"
                 /\ UNCHANGED <<pages_scraped, collected_emails, collected_socials,
                                crawl_emails, home_anchors, sub_pages, found_pages>>
    /\ UNCHANGED <<url, business_name, search_enriched, queries, found_log, search_log, ret>>
    /\ UNCHANGED pipeVars
    /\ UNCHANGED repairVars

\* line 152 as a break
RestAfterFailureBreak(rest) == <<>>

\* line 152: continue with the next sub-page
RestAfterFailure(rest) == rest

\* lines 144-152: one iteration of the loop over sub_pages
FetchSubPage ==
    /\ spc = "sub"
    /\ sub_pages # <<>>
    /\ \E resp \in SubPageResponses :
         /\ fetch_log' = Append(fetch_log, FetchEntry(Head(sub_pages), resp))
         /\ IF resp.kind = "http"
            THEN /\ pages_scraped' = pages_scraped + 1
                 /\ collected_emails' = collected_emails \cup extract_emails(resp.text)
                 /\ crawl_emails' = collected_emails'
                 /\ sub_pages' = Tail(sub_pages)
            ELSE /\ UNCHANGED <<pages_scraped, collected_emails, crawl_emails>>
                 /\ sub_pages' = RestAfterFailure(Tail(sub_pages))
    /\ spc' = IF sub_pages' = <<>> THEN "general" ELSE "sub"
    /\ UNCHANGED <<url, business_name, collected_socials, search_enriched, home_fetch,
                   home_anchors, found_pages, queries, found_log, search_log, ret>>
    /\ UNCHANGED pipeVars
    /\ UNCHANGED repairVars

\* lines 158, 160 and 169 without the test on collected_emails
NeedsSearchAlways(name, emails) == name # <<>>

\* lines 158, 160 and 169: a search runs for a named business without e-mails
NeedsSearch(name, emails) == name # <<>> /\ emails = {}

\* lines 163-165 and 173-175 with the flag set whenever a search ran
FlagAfterSearchAlways(found, flag) == TRUE

\* lines 163-165 and 173-175: the flag is set when the search found something
FlagAfterSearch(found, flag) == IF found # {} THEN TRUE ELSE flag

\* lines 158-165: 3a, the general search
GeneralSearch ==
    /\ spc = "general"
    /\ IF NeedsSearch(business_name, collected_emails)
       THEN \E resp \in SearchResponses :
              LET found_emails == search_duckduckgo(resp) IN
              /\ queries' = Append(queries, GeneralQuery(business_name))
              /\ found_log' = Append(found_log, found_emails)
              /\ search_log' = Append(search_log, resp.kind)
              /\ collected_emails' = collected_emails \cup found_emails
              /\ search_enriched' = FlagAfterSearch(found_emails, search_enriched)
       ELSE UNCHANGED <<queries, found_log, search_log, collected_emails, search_enriched>>
    /\ spc' = "social"
    /\ UNCHANGED <<url, business_name, collected_socials, pages_scraped, sub_pages,
                   home_fetch, home_anchors, found_pages, fetch_log, crawl_emails, ret>>
    /\ UNCHANGED pipeVars
    /\ UNCHANGED repairVars

\* lines 158 and 169-175: 3b, the social search
SocialSearch ==
    /\ spc = "social"
    /\ IF NeedsSearch(business_name, collected_emails)
       THEN \E resp \in SearchResponses :
              LET social_emails == search_duckduckgo(resp) IN
              /\ queries' = Append(queries, SocialQuery(business_name))
              /\ found_log' = Append(found_log, social_emails)
              /\ search_log' = Append(search_log, resp.kind)
              /\ collected_emails' = collected_emails \cup social_emails
              /\ search_enriched' = FlagAfterSearch(social_emails, search_enriched)
       ELSE UNCHANGED <<queries, found_log, search_log, collected_emails, search_enriched>>
    /\ spc' = "return"
    /\ UNCHANGED <<url, business_name, collected_socials, pages_scraped, sub_pages,
                   home_fetch, home_anchors, found_pages, fetch_log, crawl_emails, ret>>
    /\ UNCHANGED pipeVars
    /\ UNCHANGED repairVars

\* lines 178-188: 4, the result
ScrapeReturn ==
    /\ spc = "return"
    /\ ret' = NormalReturn(collected_emails, collected_socials, pages_scraped,
                            search_enriched)
    /\ spc' = "returned"
    /\ UNCHANGED <<url, business_name, collected_emails, collected_socials, pages_scraped,
                   search_enriched, sub_pages, home_fetch, home_anchors, found_pages,
                   fetch_log, crawl_emails, queries, found_log, search_log>>
    /\ UNCHANGED pipeVars
    /\ UNCHANGED repairVars

(***************************************************************************)
(* gmaps_lead_pipeline.py: lead records                                    *)
(***************************************************************************)
\* The 12 hex digits of the md5 of the lowercased key are represented by
\* the lowercased key itself.
\* line 94 with .lower() applied to the business name alone
generate_lead_id_name_lowered(name, address) == Lower(name) \o <<"|">> \o address

\* lines 94-95; the digest is one-to-one on the key strings of the model
generate_lead_id(name, address) == Lower(name \o <<"|">> \o address)

StatusSuccess == [tag |-> "success", msg |-> ""]
StatusPartial == [tag |-> "partial", msg |-> ""]
StatusError(msg) == [tag |-> "error", msg |-> msg]

\* lines 187-190 with a crawl of no page reported as an error
EnrichmentStatusNoPageError(contacts) ==
    LET emails == Get(contacts, "emails", {})
        owner == Get(contacts, "owner_info", <<>>)
    IN  IF Get(contacts, "error", "") # ""
        THEN StatusError(contacts.error)
        ELSE IF emails # {} \/ Get(owner, "email", "") # ""
             THEN StatusSuccess
             ELSE IF Get(contacts, "_pages_scraped", 0) = 0
                  THEN StatusError("no page scraped")
                  ELSE StatusPartial

\* lines 187-190
EnrichmentStatus(contacts) ==
    LET emails == Get(contacts, "emails", {})
        owner == Get(contacts, "owner_info", <<>>)
    IN  IF Get(contacts, "error", "") # ""
        THEN StatusError(contacts.error)
        ELSE IF emails # {} \/ Get(owner, "email", "") # ""
             THEN StatusSuccess
             ELSE StatusPartial

flatten_lead(gmaps_data, contacts) ==
    [lead_id |-> generate_lead_id(Get(gmaps_data, "title", <<>>),
                                  Get(gmaps_data, "address", <<>>)),
     business_name |-> Get(gmaps_data, "title", <<>>),
     address |-> Get(gmaps_data, "address", <<>>),
     website |-> Get(gmaps_data, "website", <<>>),
     emails |-> Get(contacts, "emails", {}),
     pages_scraped |-> Get(contacts, "_pages_scraped", 0),
     search_enriched |-> IF Get(contacts, "_search_enriched", FALSE) THEN "yes" ELSE "no",
     enrichment_status |-> EnrichmentStatus(contacts)]

(***************************************************************************)
(* The outside world of one pipeline run                                   *)
(***************************************************************************)
B_A == [title |-> <<"A">>, address |-> <<"x">>, website |-> <<"a.biz">>]
B_A2 == [title |-> <<"a">>, address |-> <<"X">>, website |-> <<>>]
B_B == [title |-> <<"B">>, address |-> <<"x">>, website |-> <<"http://", "b.biz">>]
B_C == [title |-> <<"c">>, address |-> <<"y">>, website |-> <<>>]

BusinessUniverse == {B_A, B_A2, B_B}

BusinessLists == UNION {[1..n -> BusinessUniverse] : n \in 0..MaxBusinesses}

\* what a call of scrape_website_contacts can hand back to the pool
ScrapeReturns ==
    { NormalReturn({E_HELLO}, NoSocials, 1, FALSE),
      NormalReturn({}, NoSocials, 0, FALSE) }

TaskOutcomes ==
    {[kind |-> "return", value |-> r] : r \in ScrapeReturns}
    \cup {[kind |-> "raise", msg |-> m] : m \in ExcMsgs}

NoOutcome == [kind |-> "none"]

NoWebsiteContacts == [error |-> "No website available"]

\* the sheet: whether row 1 is the header row, and the data rows
HEADER_CELL == <<"lead_id">>

ROW_A == flatten_lead(B_A, NormalReturn({E_HELLO}, NoSocials, 1, FALSE))
ROW_B == flatten_lead(B_B, NormalReturn({}, NoSocials, 1, FALSE))

SheetInits ==
    { [header |-> TRUE, rows |-> <<>>],
      [header |-> TRUE, rows |-> <<ROW_A>>],
      [header |-> TRUE, rows |-> <<ROW_B, ROW_A>>],
      [header |-> FALSE, rows |-> <<ROW_A, ROW_B>>] }

\* worksheet.col_values(1)
col_values(sh) ==
    (IF sh.header THEN <<HEADER_CELL>> ELSE <<>>)
    \o [i \in 1..Len(sh.rows) |-> sh.rows[i].lead_id]

\* the lead records and known identifiers handed to append_leads_to_sheet
LeadUniverse ==
    { ROW_A, flatten_lead(B_A2, NoWebsiteContacts), ROW_B,
      flatten_lead(B_C, NoWebsiteContacts) }

LeadLists == UNION {[1..n -> LeadUniverse] : n \in 0..MaxLeads}

LeadIdsOf(rows) == {rows[i].lead_id : i \in DOMAIN rows}

(***************************************************************************)
(* get_existing_lead_ids, append_leads_to_sheet                            *)
(***************************************************************************)
\* lines 435-436: set(lead_ids[1:])
ExistingIdsRead(sh) ==
    LET lead_ids == col_values(sh)
    IN  {lead_ids[i] : i \in 2..Len(lead_ids)}

\* line 449 without the duplicate filter
NewLeadsUnfiltered(ls, ids) == ls

\* line 449
NewLeads(ls, ids) == SelectSeq(ls, LAMBDA lead : lead.lead_id \notin ids)

InitialResults ==
    [businesses_found |-> 0, leads_enriched |-> 0, leads_added |-> 0, errors |-> <<>>]

(***************************************************************************)
(* run_pipeline and enrich_businesses                                      *)
(***************************************************************************)
Indices == DOMAIN businesses

Running == {i \in DOMAIN task : task[i] = "running"}

\* a loop that stops at the first completed future, on a pool that is not waited for
FirstCollected(t) == \E i \in DOMAIN t : t[i] = "collected"

\* every future has been yielded by as_completed and the executor has shut down
AllCollected(t) == \A i \in DOMAIN t : t[i] \in {"skipped", "collected"}

\* a pool that starts a thread for every call
HasFreeWorkerUnbounded(n, max_workers) == TRUE

\* the pool has an idle worker slot
HasFreeWorker(n, max_workers) == n < max_workers

\* lines 484-485 with a test on the key instead of the value
HasWebsiteKey(b) == "website" \in DOMAIN b

\* lines 484-485: b.get("website") is truthy
HasWebsite(b) == Get(b, "website", <<>>) # <<>>

\* lines 570-581: the businesses come back from the Google Maps scraper
ScrapeMaps ==
    /\ ppc = "start"
    /\ IF businesses = <<>>
       THEN /\ results' = [results EXCEPT !.errors =
                              Append(@, [stage |-> "maps", msg |-> "No businesses found on Google Maps"])]
            /\ ppc' = "done"
       ELSE /\ results' = [results EXCEPT !.businesses_found = Len(businesses)]
            /\ ppc' = "partition"
    /\ UNCHANGED <<businesses, workers, sheet, sheet0, task, future, enriched,
                   leads, existing_ids, append_calls, store_ops>>
    /\ UNCHANGED <<output_csv, csv_file>>
    /\ UNCHANGED scrapeVars
    /\ UNCHANGED repairVars

\* lines 481-494: the businesses without a website get their entry at once
Partition ==
    /\ ppc = "partition"
    /\ LET without_websites == SelectSeq(businesses, LAMBDA b : ~HasWebsite(b))
       IN  enriched' = [k \in DOMAIN without_websites |->
                           [gmaps |-> without_websites[k], contacts |-> NoWebsiteContacts]]
    /\ task' = [i \in Indices |->
                   IF HasWebsite(businesses[i]) THEN "new" ELSE "skipped"]
    /\ ppc' = IF \E i \in Indices : HasWebsite(businesses[i])
              THEN "pool" ELSE "flatten"
    /\ UNCHANGED <<businesses, workers, sheet, sheet0, future,
                   leads, existing_ids, append_calls, store_ops, results>>
    /\ UNCHANGED <<output_csv, csv_file>>
    /\ UNCHANGED scrapeVars
    /\ UNCHANGED repairVars

\* lines 499-506: executor.submit, in the order of with_websites
Submit(i) ==
    /\ ppc = "pool"
    /\ task[i] = "new"
    /\ \A j \in Indices : j < i => task[j] # "new"
    /\ task' = [task EXCEPT ![i] = "queued"]
    /\ UNCHANGED <<businesses, workers, sheet, sheet0, ppc, future, enriched,
                   leads, existing_ids, append_calls, store_ops, results>>
    /\ UNCHANGED <<output_csv, csv_file>>
    /\ UNCHANGED scrapeVars
    /\ UNCHANGED repairVars

\* ThreadPoolExecutor(max_workers): an idle worker takes the oldest queued call
WorkerStart(i) ==
    /\ ppc = "pool"
    /\ task[i] = "queued"
    /\ \A j \in Indices : j < i => task[j] # "queued"
    /\ HasFreeWorker(Cardinality(Running), workers)
    /\ task' = [task EXCEPT ![i] = "running"]
    /\ UNCHANGED <<businesses, workers, sheet, sheet0, ppc, future, enriched,
                   leads, existing_ids, append_calls, store_ops, results>>
    /\ UNCHANGED <<output_csv, csv_file>>
    /\ UNCHANGED scrapeVars
    /\ UNCHANGED repairVars

\* the call of scrape_website_contacts in the worker returns or raises
WorkerFinish(i) ==
    /\ task[i] = "running"
    /\ \E o \in TaskOutcomes : future' = [future EXCEPT ![i] = o]
    /\ task' = [task EXCEPT ![i] = "done"]
    /\ UNCHANGED <<businesses, workers, sheet, sheet0, ppc, enriched,
                   leads, existing_ids, append_calls, store_ops, results>>
    /\ UNCHANGED <<output_csv, csv_file>>
    /\ UNCHANGED scrapeVars
    /\ UNCHANGED repairVars

\* lines 510-522 with an except branch that drops the error
EntryOfDroppingError(business, outcome) ==
    IF outcome.kind = "return"
    THEN [gmaps |-> business, contacts |-> outcome.value]
    ELSE [gmaps |-> business, contacts |-> [emails |-> {}]]

\* the entry appended for a completed future, lines 510-522
EntryOf(business, outcome) ==
    IF outcome.kind = "return"
    THEN [gmaps |-> business, contacts |-> outcome.value]
    ELSE [gmaps |-> business, contacts |-> [error |-> outcome.msg]]

\* lines 508-522: one iteration of the loop over as_completed; the loop and
\* the with block end when no future is left
Collect(i) ==
    /\ ppc = "pool"
    /\ \A j \in Indices : task[j] # "new"
    /\ task[i] = "done"
    /\ enriched' = Append(enriched, EntryOf(businesses[i], future[i]))
    /\ task' = [task EXCEPT ![i] = "collected"]
    /\ ppc' = IF AllCollected(task') THEN "flatten" ELSE "pool"
    /\ UNCHANGED <<businesses, workers, sheet, sheet0, future,
                   leads, existing_ids, append_calls, store_ops, results>>
    /\ UNCHANGED <<output_csv, csv_file>>
    /\ UNCHANGED scrapeVars
    /\ UNCHANGED repairVars

\* lines 596-606: the lead records
BuildLeads ==
    /\ ppc = "flatten"
    /\ results' = [results EXCEPT !.leads_enriched = Len(enriched)]
    /\ leads' = [k \in DOMAIN enriched |->
                    flatten_lead(enriched[k].gmaps, enriched[k].contacts)]
    /\ ppc' = "csv"
    /\ UNCHANGED <<businesses, workers, sheet, sheet0, task, future, enriched,
                   existing_ids, append_calls, store_ops>>
    /\ UNCHANGED <<output_csv, csv_file>>
    /\ UNCHANGED scrapeVars
    /\ UNCHANGED repairVars

\* the file at output_csv before line 626 has run
NoFile == [written |-> FALSE]

\* the file after lines 620-630 raised: absent or cut short
BrokenFile == [written |-> FALSE, rows |-> <<>>]

\* lines 627-630: the header row, then one row per lead
CsvFile(ls) == [written |-> TRUE, rows |-> ls]

\* lines 618-636: the CSV output, when requested; the store step of line
\* 639 follows whatever its outcome (the run is one without --skip-sheets)
WriteCsv ==
    /\ ppc = "csv"
    /\ IF output_csv
       THEN \/ /\ csv_file' = CsvFile(leads)
               /\ results' = results
            \/ /\ csv_file' = BrokenFile
               /\ results' = [results EXCEPT !.errors =
                                 Append(@, [stage |-> "csv", msg |-> "write failed"])]
       ELSE UNCHANGED <<csv_file, results>>
    /\ ppc' = "open"
    /\ UNCHANGED <<businesses, workers, sheet, sheet0, task, future, enriched,
                   leads, output_csv, existing_ids, append_calls, store_ops>>
    /\ UNCHANGED scrapeVars
    /\ UNCHANGED repairVars

\* line 647, get_or_create_sheet lines 300-324: the sheet is opened and the
\* header row is inserted when row 1 is not the header; a failure of the
\* header check is only printed
OpenSheet ==
    /\ ppc = "open"
    /\ \/ /\ sheet' = [sheet EXCEPT !.header = TRUE]
          /\ store_ops' = Append(store_ops, "open")
          /\ ppc' = "read"
          /\ results' = results
       \/ /\ sheet' = sheet
          /\ store_ops' = Append(store_ops, "open")
          /\ ppc' = "read"
          /\ results' = results
       \/ /\ results' = [results EXCEPT !.errors =
                              Append(@, [stage |-> "sheets", msg |-> "open failed"])]
          /\ store_ops' = Append(store_ops, "open_failed")
          /\ ppc' = "done"
          /\ sheet' = sheet
    /\ UNCHANGED <<businesses, workers, sheet0, task, future, enriched,
                   leads, existing_ids, append_calls>>
    /\ UNCHANGED <<output_csv, csv_file>>
    /\ UNCHANGED scrapeVars
    /\ UNCHANGED repairVars

\* line 650, get_existing_lead_ids lines 431-438
ReadIds ==
    /\ ppc = "read"
    /\ \/ /\ existing_ids' = ExistingIdsRead(sheet)
          /\ store_ops' = Append(store_ops, "read")
       \/ /\ existing_ids' = {}
          /\ store_ops' = Append(store_ops, "read_failed")
    /\ ppc' = "append"
    /\ UNCHANGED <<businesses, workers, sheet, sheet0, task, future, enriched,
                   leads, append_calls, results>>
    /\ UNCHANGED <<output_csv, csv_file>>
    /\ UNCHANGED scrapeVars
    /\ UNCHANGED repairVars

\* lines 651-656, append_leads_to_sheet lines 441-465
AppendLeads ==
    /\ ppc = "append"
    /\ LET new_leads == NewLeads(leads, existing_ids) IN
       IF new_leads = <<>>
       THEN /\ results' = [results EXCEPT !.leads_added = 0]
            /\ UNCHANGED <<sheet, append_calls, store_ops>>
       ELSE /\ append_calls' = Append(append_calls, new_leads)
            /\ \/ /\ sheet' = [sheet EXCEPT !.rows = @ \o new_leads]
                  /\ store_ops' = Append(store_ops, "append")
                  /\ results' = [results EXCEPT !.leads_added = Len(new_leads)]
               \/ /\ sheet' = sheet
                  /\ store_ops' = Append(store_ops, "append_failed")
                  /\ results' = [results EXCEPT !.errors =
                                    Append(@, [stage |-> "sheets", msg |-> "append failed"])]
    /\ ppc' = "done"
    /\ UNCHANGED <<businesses, workers, sheet0, task, future, enriched,
                   leads, existing_ids>>
    /\ UNCHANGED <<output_csv, csv_file>>
    /\ UNCHANGED scrapeVars
    /\ UNCHANGED repairVars

(***************************************************************************)
(* Specifications                                                          *)
(***************************************************************************)
ScrapeIdle ==
    /\ url = <<>>
    /\ business_name = <<>>
    /\ spc = "idle"
    /\ collected_emails = {}
    /\ pages_scraped = 0
    /\ search_enriched = FALSE
    /\ sub_pages = <<>>
    /\ home_fetch = "none"
    /\ home_anchors = <<>>
    /\ found_pages = <<>>
    /\ fetch_log = <<>>
    /\ collected_socials = NoSocials
    /\ crawl_emails = {}
    /\ queries = <<>>
    /\ found_log = <<>>
    /\ search_log = <<>>
    /\ ret = NoRet

PipeIdle ==
    /\ businesses = <<>>
    /\ workers = 1
    /\ sheet = [header |-> TRUE, rows |-> <<>>]
    /\ sheet0 = sheet
    /\ ppc = "idle"
    /\ task = <<>>
    /\ future = <<>>
    /\ enriched = <<>>
    /\ leads = <<>>
    /\ output_csv = FALSE
    /\ csv_file = NoFile
    /\ existing_ids = {}
    /\ append_calls = <<>>
    /\ store_ops = <<>>
    /\ results = InitialResults

\* a sheet row before repair_missing_emails has reached it
NoRow == [website |-> <<>>, business_name |-> <<>>]

RepairIdle ==
    /\ repair_row = NoRow
    /\ rpc = "idle"
    /\ cell_updates = <<>>
    /\ repaired_count = 0

\* one run of run_pipeline
Init ==
    /\ ScrapeIdle
    /\ RepairIdle
    /\ businesses \in BusinessLists
    /\ workers \in 1..MaxWorkers
    /\ sheet \in SheetInits
    /\ sheet0 = sheet
    /\ ppc = "start"
    /\ task = [i \in DOMAIN businesses |-> "input"]
    /\ future = [i \in DOMAIN businesses |-> NoOutcome]
    /\ enriched = <<>>
    /\ leads = <<>>
    /\ output_csv \in BOOLEAN
    /\ csv_file = NoFile
    /\ existing_ids = {}
    /\ append_calls = <<>>
    /\ store_ops = <<>>
    /\ results = InitialResults

Next ==
    \/ ScrapeMaps
    \/ Partition
    \/ \E i \in Indices : Submit(i)
    \/ \E i \in Indices : WorkerStart(i)
    \/ \E i \in Indices : WorkerFinish(i)
    \/ \E i \in Indices : Collect(i)
    \/ BuildLeads
    \/ WriteCsv
    \/ OpenSheet
    \/ ReadIds
    \/ AppendLeads

Spec == Init /\ [][Next]_vars

\* one call of scrape_website_contacts
InitScrape ==
    /\ PipeIdle
    /\ RepairIdle
    /\ url \in ScrapeUrls
    /\ business_name \in ScrapeNames
    /\ spc = "entry"
    /\ collected_emails = {}
    /\ pages_scraped = 0
    /\ search_enriched = FALSE
    /\ sub_pages = <<>>
    /\ home_fetch = "none"
    /\ home_anchors = <<>>
    /\ found_pages = <<>>
    /\ fetch_log = <<>>
    /\ collected_socials = NoSocials
    /\ crawl_emails = {}
    /\ queries = <<>>
    /\ found_log = <<>>
    /\ search_log = <<>>
    /\ ret = NoRet

NextScrape ==
    \/ ScrapeEntry
    \/ OpenClient
    \/ FetchHome
    \/ FetchSubPage
    \/ GeneralSearch
    \/ SocialSearch
    \/ ScrapeReturn

SpecScrape == InitScrape /\ [][NextScrape]_vars

\* the businesses and the contacts handed to flatten_lead
FlattenNames == {<<"A">>, <<"a">>, <<"a", "|", "b">>}

FlattenAddresses == {<<"x">>, <<"X">>, <<"b", "|", "x">>}

FlattenBusinesses == [title : FlattenNames, address : FlattenAddresses]

OwnerInfos == {<<>>, [email |-> "owner@a.biz"]}

FlattenContacts ==
    [emails : {{}, {E_HELLO}}, owner_info : OwnerInfos]
    \cup [emails : {{}, {E_HELLO}}, owner_info : OwnerInfos, error : ExcMsgs]

FlattenEntries == [gmaps : FlattenBusinesses, contacts : FlattenContacts]

\* lines 603-606 of run_pipeline on a list of two enriched entries
InitFlatten ==
    /\ ScrapeIdle
    /\ RepairIdle
    /\ businesses = <<>>
    /\ workers = 1
    /\ sheet = [header |-> TRUE, rows |-> <<>>]
    /\ sheet0 = sheet
    /\ ppc = "flatten"
    /\ task = <<>>
    /\ future = <<>>
    /\ enriched \in [1..2 -> FlattenEntries]
    /\ leads = <<>>
    /\ output_csv = FALSE
    /\ csv_file = NoFile
    /\ existing_ids = {}
    /\ append_calls = <<>>
    /\ store_ops = <<>>
    /\ results = InitialResults

NextFlatten == BuildLeads

SpecFlatten == InitFlatten /\ [][NextFlatten]_vars

\* the anchors of one parsed page
ExtractHrefs == {L_CONTACT, L_CONTACT_ABS, L_ABOUT, L_TEAM, L_STAFF, L_PEOPLE,
                 L_BLOG, L_EXTERNAL, S_FB, S_FB2, S_LI_FB, S_TW}

LongAnchorLists ==
    { <<L_CONTACT, L_EXTERNAL, L_ABOUT, L_TEAM, L_CONTACT_ABS, L_STAFF, L_PEOPLE, L_BLOG>>,
      <<S_TW, S_LI_FB, S_FB, S_FB2, L_CONTACT>> }

ExtractAnchorLists ==
    UNION {[1..n -> ExtractHrefs] : n \in 0..MaxAnchors} \cup LongAnchorLists

\* lines 140 and 143 of scrape_website_contacts on one parsed home page
InitExtract ==
    /\ PipeIdle
    /\ RepairIdle
    /\ url = <<"http://", "a.biz">>
    /\ business_name = <<>>
    /\ spc = "socials"
    /\ collected_emails = {}
    /\ pages_scraped = 0
    /\ search_enriched = FALSE
    /\ sub_pages = <<>>
    /\ home_fetch = "ok"
    /\ home_anchors \in ExtractAnchorLists
    /\ found_pages = <<>>
    /\ fetch_log = <<>>
    /\ collected_socials = NoSocials
    /\ crawl_emails = {}
    /\ queries = <<>>
    /\ found_log = <<>>
    /\ search_log = <<>>
    /\ ret = NoRet

\* line 140: collected_socials.update(extract_social_media(soup))
ExtractSocials ==
    /\ spc = "socials"
    /\ collected_socials' = extract_social_media(home_anchors) @@ collected_socials
    /\ spc' = "pages"
    /\ UNCHANGED <<url, business_name, collected_emails, pages_scraped, search_enriched,
                   sub_pages, home_fetch, home_anchors, found_pages, fetch_log,
                   crawl_emails, queries, found_log, search_log, ret>>
    /\ UNCHANGED pipeVars
    /\ UNCHANGED repairVars

\* line 143: sub_pages = get_contact_pages(soup, url)
ExtractPages ==
    /\ spc = "pages"
    /\ \E subs \in get_contact_pages(Range(home_anchors), UrlHost(url)) :
         /\ sub_pages' = subs
         /\ found_pages' = subs
    /\ spc' = "extracted"
    /\ UNCHANGED <<url, business_name, collected_emails, collected_socials, pages_scraped,
                   search_enriched, home_fetch, home_anchors, fetch_log,
                   crawl_emails, queries, found_log, search_log, ret>>
    /\ UNCHANGED pipeVars
    /\ UNCHANGED repairVars

NextExtract == ExtractSocials \/ ExtractPages

SpecExtract == InitExtract /\ [][NextExtract]_vars

\* the rows with a missing e-mail that the loop of lines 67-107 visits
RepairRows == [website : {<<>>, <<"a.biz">>}, business_name : ScrapeNames]

\* one iteration of the loop of repair_missing_emails
InitRepair ==
    /\ ScrapeIdle
    /\ PipeIdle
    /\ repair_row \in RepairRows
    /\ rpc = "row"
    /\ cell_updates = <<>>
    /\ repaired_count = 0

\* lines 68-83: the row is skipped without website and name; otherwise
\* scrape_website_contacts is called with the website, or "" without one
RepairRow ==
    /\ rpc = "row"
    /\ LET website == repair_row.website
           name == repair_row.business_name
       IN  IF website = <<>> /\ name = <<>>
           THEN /\ rpc' = "done"
                /\ UNCHANGED <<url, business_name, spc>>
           ELSE LET target_url == IF website # <<>> THEN website ELSE <<>> IN
                /\ url' = target_url
                /\ business_name' = name
                /\ spc' = "entry"
                /\ rpc' = "scraping"
    /\ UNCHANGED <<collected_emails, collected_socials, pages_scraped, search_enriched,
                   sub_pages, home_fetch, home_anchors, found_pages, fetch_log,
                   crawl_emails, queries, found_log, search_log, ret>>
    /\ UNCHANGED <<repair_row, cell_updates, repaired_count>>
    /\ UNCHANGED pipeVars

\* lines 84-107: the first e-mail found is written to the row's cell; a
\* failure of the update is logged and the loop goes on
RepairResult ==
    /\ rpc = "scraping"
    /\ spc = "returned"
    /\ LET found_emails == Get(ret, "emails", {}) IN
       IF found_emails # {}
       THEN \E primary_email \in found_emails :
              \/ /\ cell_updates' = Append(cell_updates, primary_email)
                 /\ repaired_count' = repaired_count + 1
              \/ UNCHANGED <<cell_updates, repaired_count>>
       ELSE UNCHANGED <<cell_updates, repaired_count>>
    /\ rpc' = "done"
    /\ UNCHANGED repair_row
    /\ UNCHANGED scrapeVars
    /\ UNCHANGED pipeVars

NextRepair ==
    \/ RepairRow
    \/ RepairResult
    \/ ScrapeEntry
    \/ OpenClient
    \/ FetchHome
    \/ FetchSubPage
    \/ GeneralSearch
    \/ SocialSearch
    \/ ScrapeReturn

SpecRepair == InitRepair /\ [][NextRepair]_vars

\* one call of append_leads_to_sheet
InitAppend ==
    /\ ScrapeIdle
    /\ RepairIdle
    /\ businesses = <<>>
    /\ workers = 1
    /\ sheet = [header |-> TRUE, rows |-> <<>>]
    /\ sheet0 = sheet
    /\ ppc = "append"
    /\ task = <<>>
    /\ future = <<>>
    /\ enriched = <<>>
    /\ leads \in LeadLists
    /\ output_csv = FALSE
    /\ csv_file = NoFile
    /\ existing_ids \in SUBSET {l.lead_id : l \in LeadUniverse}
    /\ append_calls = <<>>
    /\ store_ops = <<>>
    /\ results = InitialResults

NextAppend == AppendLeads

SpecAppend == InitAppend /\ [][NextAppend]_vars

(***************************************************************************)
(* Properties                                                              *)
(***************************************************************************)
\* the positions of ls whose lead_id is not in ids
FreshPositions(ls, ids) == {i \in DOMAIN ls : ls[i].lead_id \notin ids}

\* rows holds the elements of ls at the positions P, in increasing position
IsSelection(rows, ls, P) ==
    /\ Len(rows) = Cardinality(P)
    /\ \A i \in P : rows[Cardinality({j \in P : j <= i})] = ls[i]

\* C1: append_leads_to_sheet hands to the store exactly the leads whose
\* lead_id is not in existing_ids, in their original relative order; when
\* there is none no append is made and 0 is returned; otherwise exactly one
\* append_rows call is made and the count returned is the number of those leads.
C1_AppendExactlyNewLeads ==
    ppc = "done" =>
        LET fresh == FreshPositions(leads, existing_ids) IN
        IF fresh = {}
        THEN append_calls = <<>> /\ results.leads_added = 0 /\ sheet = sheet0
        ELSE /\ Len(append_calls) = 1
             /\ IsSelection(append_calls[1], leads, fresh)
             /\ results.errors = <<>> =>
                   /\ results.leads_added = Cardinality(fresh)
                   /\ sheet.rows = sheet0.rows \o append_calls[1]

\* five leads of which two are known, one of them the first: three rows appended
C1_Witness ==
    /\ ppc = "done"
    /\ Len(leads) = 5
    /\ leads[1].lead_id \in existing_ids
    /\ Cardinality(FreshPositions(leads, existing_ids)) = 3
    /\ results.leads_added = 3
    /\ Len(append_calls) = 1

\* C2: in a run of run_pipeline no row is appended whose lead_id is already
\* in the store at the start of the run, whatever the outcome of reading
\* the known identifiers (failed read, missing header row).
C2_NoKnownIdAppended ==
    \A k \in DOMAIN append_calls : \A r \in DOMAIN append_calls[k] :
        append_calls[k][r].lead_id \notin LeadIdsOf(sheet0.rows)

\* C3: the rows appended in one run contain no two rows with the same
\* lead_id, also when two businesses of the batch have the same lead_id.
C3_AppendedIdsUnique ==
    \A k \in DOMAIN append_calls : \A r1, r2 \in DOMAIN append_calls[k] :
        r1 # r2 => append_calls[k][r1].lead_id # append_calls[k][r2].lead_id

\* the contacts expected for business i once its future is known
RaisedAt(i) == future[i].kind = "raise"

\* C4: enrich_businesses returns exactly one entry per input business under
\* every completion order and every set of raising workers: the entry of a
\* worker that raised carries an 'error' key, the entry of a worker that
\* returned carries what it returned, and no entry is lost on the way.
C4_OneEntryPerBusiness ==
    /\ ppc \in {"pool", "flatten"} =>
          Len(enriched) = Cardinality({i \in Indices : task[i] \in {"skipped", "collected"}})
    /\ ppc = "flatten" =>
          \E pi \in [DOMAIN enriched -> Indices] :
              /\ \A k1, k2 \in DOMAIN enriched : k1 # k2 => pi[k1] # pi[k2]
              /\ Len(enriched) = Len(businesses)
              /\ \A k \in DOMAIN enriched :
                    /\ enriched[k].gmaps = businesses[pi[k]]
                    /\ RaisedAt(pi[k]) =>
                          /\ "error" \in DOMAIN enriched[k].contacts
                          /\ enriched[k].contacts.error = future[pi[k]].msg
                    /\ future[pi[k]].kind = "return" =>
                          enriched[k].contacts = future[pi[k]].value

\* two crawled businesses, one worker raised and one returned, and the one
\* submitted last completed first
C4_Witness ==
    /\ ppc = "flatten"
    /\ \E i, j \in Indices :
          /\ i < j
          /\ businesses[i] # businesses[j]
          /\ RaisedAt(i)
          /\ future[j].kind = "return"
          /\ enriched = <<[gmaps |-> businesses[j], contacts |-> future[j].value],
                          [gmaps |-> businesses[i], contacts |-> [error |-> future[i].msg]]>>

\* C5: a business without a website is never handed to the worker pool, and
\* its entry carries the contacts {"error": "No website available"}.
C5_NoWebsiteNeverSubmitted ==
    \A i \in Indices :
        Get(businesses[i], "website", <<>>) = <<>> =>
            /\ task[i] \in {"input", "skipped"}
            /\ future[i] = NoOutcome
            /\ ppc \notin {"start", "partition"} =>
                  LET b == businesses[i] IN
                  /\ \A k \in DOMAIN enriched :
                        enriched[k].gmaps = b => enriched[k].contacts = NoWebsiteContacts
                  /\ Cardinality({k \in DOMAIN enriched : enriched[k].gmaps = b})
                        = Cardinality({j \in Indices : businesses[j] = b})

\* a business without a website has its entry while a worker is running
C5_Witness ==
    /\ ppc = "pool"
    /\ Running # {}
    /\ \E i \in Indices : businesses[i] = B_A2 /\ task[i] = "skipped"
    /\ \E k \in DOMAIN enriched : enriched[k] = [gmaps |-> B_A2, contacts |-> NoWebsiteContacts]

\* C6: at every moment the number of scrape_website_contacts calls in
\* progress is at most max_workers.
C6_BoundedConcurrency == Cardinality(Running) <= workers

\* the pool is full and a submitted call is waiting
C6_Witness ==
    /\ Cardinality(Running) = workers
    /\ \E i \in Indices : task[i] = "queued"

EnrichmentOver == \A i \in DOMAIN task : task[i] \in {"skipped", "collected"}

\* C7: run_pipeline is a fan-out/fan-in barrier: a step that builds lead
\* records, reads the store or appends to it is taken by the coordinating
\* thread only when every enrichment task of the batch has completed and
\* been collected, and at most one append of lead rows is made per run.
C7_Barrier ==
    [][ /\ (leads' # leads \/ store_ops' # store_ops \/ sheet' # sheet
              \/ existing_ids' # existing_ids \/ append_calls' # append_calls)
            => (EnrichmentOver /\ ppc \in {"flatten", "open", "read", "append"})
        /\ Len(append_calls') <= 1 ]_vars

\* a run over two crawled businesses that appended rows
C7_Witness ==
    /\ ppc = "done"
    /\ Len(append_calls) = 1
    /\ Cardinality({i \in Indices : task[i] = "collected"}) >= 2
    /\ store_ops = <<"open", "read", "append">>

\* C8: the search fallback follows a fixed order: a query is issued only for
\* a named business with no e-mail collected so far; once the crawl is over
\* without an e-mail for a named business the general query is issued, first;
\* the social query is issued only after a general query that returned no
\* e-mail; at most two queries are issued.
C8_FallbackOrder ==
    [][ /\ queries' # queries =>
              /\ collected_emails = {}
              /\ business_name # <<>>
              /\ \/ /\ queries = <<>>
                    /\ crawl_emails = {}
                    /\ queries' = <<GeneralQuery(business_name)>>
                 \/ /\ queries = <<GeneralQuery(business_name)>>
                    /\ found_log = << {} >>
                    /\ queries' = <<GeneralQuery(business_name), SocialQuery(business_name)>>
        /\ (spc = "general" /\ spc' # spc /\ crawl_emails = {} /\ business_name # <<>>)
              => queries' = <<GeneralQuery(business_name)>>
        /\ (crawl_emails # {} \/ business_name = <<>>) => queries' = <<>>
        /\ Len(queries') <= 2 ]_vars

\* both queries were issued, the general one first
C8_Witness ==
    /\ spc = "returned"
    /\ queries = <<GeneralQuery(business_name), SocialQuery(business_name)>>
    /\ home_fetch = "ok"

\* C9: in the result, _search_enriched is true exactly when one of the
\* fallback queries returned an e-mail; it is false when the crawl found an
\* e-mail or every query returned nothing; when it is true the e-mails of
\* the result are not empty.
C9_SearchEnrichedFlag ==
    spc = "returned" =>
        LET flag == Get(ret, "_search_enriched", FALSE) IN
        /\ flag <=> (\E k \in DOMAIN found_log : found_log[k] # {})
        /\ crawl_emails # {} => ~flag
        /\ flag => Get(ret, "emails", {}) # {}

\* the social query found the e-mail after a general query that found none
C9_Witness ==
    /\ spc = "returned"
    /\ Len(found_log) = 2
    /\ found_log[1] = {}
    /\ found_log[2] # {}
    /\ Get(ret, "_search_enriched", FALSE)

\* a named business whose home page could not be fetched and whose two
\* fallback queries returned nothing
UnreachableAndNoSearch ==
    /\ spc = "returned"
    /\ business_name # <<>>
    /\ home_fetch = "failed"
    /\ found_log = << {}, {} >>

ResultKeys == {"emails", "social_media", "owner_info", "team_members",
               "phone_numbers", "business_hours", "additional_contacts",
               "_pages_scraped", "_search_enriched"}

IsResultObject(r) ==
    \/ DOMAIN r = {"error"}
    \/ DOMAIN r = {"error", "emails", "_pages_scraped"}
    \/ DOMAIN r = ResultKeys

SearchFailures == {r \in SearchResponses : r.kind # "results"}

\* C11: scrape_website_contacts never raises and always returns a result
\* object: no failure of the client, of the home page, of a sub-page or of a
\* search leaves the call in a raised exception, the call can always take its
\* next step until it has returned, what it returns is a result dictionary,
\* and search_duckduckgo gives the empty list for every failure of the search.
C11_NeverRaises ==
    /\ spc # "raised"
    /\ spc \notin {"returned", "idle"} => ENABLED NextScrape
    /\ spc = "returned" => IsResultObject(ret)
    /\ \A r \in SearchFailures : search_duckduckgo(r) = {}

\* the home page failed on the network and both searches failed, one of them
\* for the missing library, and the call returned
C11_Witness ==
    /\ spc = "returned"
    /\ Len(fetch_log) = 1
    /\ fetch_log[1].outcome = "network_error"
    /\ search_log = <<"import_error", "failed">>
    /\ IsResultObject(ret)

\* the client could not be opened and the call returned the error result
C11_WitnessClient ==
    /\ spc = "returned"
    /\ fetch_log = <<>>
    /\ DOMAIN ret = {"error", "emails", "_pages_scraped"}


\* ---------------------------------------------------------------------------
\* flatten_lead: enrichment_status and lead_id

Flattened == leads # <<>> /\ Len(leads) = Len(enriched)

HasEmailOrOwnerEmail(contacts) ==
    \/ Get(contacts, "emails", {}) # {}
    \/ Get(Get(contacts, "owner_info", <<>>), "email", "") # ""

\* C12: flatten_lead gives every (business, contacts) pair exactly one of
\* three statuses: the error status with the message when contacts has an
\* error, with or without e-mails; otherwise success when an e-mail or an
\* owner e-mail is present; otherwise partial.
C12_StatusClassification ==
    Flattened =>
        \A k \in DOMAIN leads :
            LET contacts == enriched[k].contacts
                status == leads[k].enrichment_status
            IN  /\ status.tag \in {"error", "success", "partial"}
                /\ "error" \in DOMAIN contacts
                       => status = StatusError(contacts.error)
                /\ "error" \notin DOMAIN contacts /\ HasEmailOrOwnerEmail(contacts)
                       => status = StatusSuccess
                /\ "error" \notin DOMAIN contacts /\ ~HasEmailOrOwnerEmail(contacts)
                       => status = StatusPartial

KeyOf(gmaps_data) ==
    Lower(Get(gmaps_data, "title", <<>>) \o <<"|">> \o Get(gmaps_data, "address", <<>>))

PairOf(gmaps_data) ==
    <<Lower(Get(gmaps_data, "title", <<>>)), Get(gmaps_data, "address", <<>>)>>

StoreFailures == {"open_failed", "read_failed", "append_failed"}

StoreStepFailed == \E k \in DOMAIN store_ops : store_ops[k] \in StoreFailures

ErrorsOf(stage) == {k \in DOMAIN results.errors : results.errors[k].stage = stage}

\* C14: when opening the sheet, reading the identifiers or appending the rows
\* fails, run_pipeline still returns, the failure is in results.errors,
\* leads_added is 0, the leads are all there and the requested CSV file holds
\* every lead; a failure of the CSV write is in results.errors and the store
\* step is attempted after it.
C14_StoreFailureReported ==
    /\ ppc \notin {"done", "idle"} => ENABLED Next
    /\ ppc = "done" /\ StoreStepFailed =>
           /\ ErrorsOf("sheets") # {}
           /\ results.leads_added = 0
           /\ Len(leads) = Len(enriched)
           /\ output_csv /\ ErrorsOf("csv") = {} => csv_file = CsvFile(leads)
    /\ ppc = "done" /\ csv_file = BrokenFile =>
           /\ ErrorsOf("csv") # {}
           /\ store_ops # <<>>


\* ---------------------------------------------------------------------------
\* scrape_website_contacts: the e-mails of a result

PassedFilter(email) ==
    LET email_lower == Lower(email)
    IN  /\ \A ext \in IGNORED_EXTS : email_lower[Len(email_lower)] # ext
        /\ \A junk \in PLACEHOLDER_EMAILS : email_lower # junk

\* C15: every e-mail of a result of scrape_website_contacts, from the home
\* page, a sub-page or a fallback query, lowercased neither ends in an
\* ignored extension nor is a placeholder address; the same holds of the
\* e-mails collected at every step of the call.
C15_EmailsPassedFilter ==
    /\ \A email \in collected_emails : PassedFilter(email)
    /\ spc = "returned" => \A email \in Get(ret, "emails", {}) : PassedFilter(email)

\* a page whose text held info@a.biz next to logo@site.PNG was scraped, and
\* the result has the first address only
C15_Witness ==
    /\ spc = "returned"
    /\ pages_scraped >= 1
    /\ queries = <<>>
    /\ Get(ret, "emails", {}) = {E_INFO}

\* the addresses came from a fallback query whose snippet held a placeholder
C15_WitnessSearch ==
    /\ spc = "returned"
    /\ crawl_emails = {}
    /\ Get(ret, "emails", {}) = {E_INFO}


\* ---------------------------------------------------------------------------
\* extract_social_media and get_contact_pages

SocialsExtracted == spc \in {"pages", "extracted"}

MatchesOf(platform) ==
    {i \in DOMAIN home_anchors : HrefContains(home_anchors[i], platform)}

\* C16: extract_social_media has entries for the six platforms only, one
\* per platform, and the entry of a platform is the first anchor in document
\* order whose lowercased href contains the platform's name; a platform no
\* anchor names has no entry.
C16_FirstMatchPerPlatform ==
    SocialsExtracted =>
        /\ DOMAIN collected_socials \subseteq PLATFORMS
        /\ \A p \in PLATFORMS :
              IF MatchesOf(p) = {}
              THEN p \notin DOMAIN collected_socials
              ELSE /\ p \in DOMAIN collected_socials
                   /\ \E i \in MatchesOf(p) :
                         /\ \A j \in MatchesOf(p) : i <= j
                         /\ collected_socials[p] = home_anchors[i]

\* three anchors name facebook; the first of them, which also names
\* linkedin, is the entry of both platforms, and the later two are ignored
C16_Witness ==
    /\ SocialsExtracted
    /\ home_anchors = <<S_TW, S_LI_FB, S_FB, S_FB2, L_CONTACT>>
    /\ collected_socials["facebook"] = S_LI_FB
    /\ collected_socials["linkedin"] = S_LI_FB
    /\ collected_socials["twitter"] = S_TW

KeywordInPath(link) ==
    \E i \in DOMAIN link.path : \E k \in CONTACT_KEYWORDS : LowerTok(link.path[i]) = k

\* C17: get_contact_pages returns at most 4 links, no link twice, only links
\* on the host of base_url, each with a contact keyword in its path.
C17_ContactPages ==
    spc = "extracted" =>
        /\ Len(found_pages) <= 4
        /\ \A i, j \in DOMAIN found_pages : i # j => found_pages[i] # found_pages[j]
        /\ \A i \in DOMAIN found_pages :
              /\ found_pages[i].host = UrlHost(url)
              /\ KeywordInPath(found_pages[i])

\* five internal contact links, one of them twice, and an external contact
\* link: four links came back
C17_Witness ==
    /\ spc = "extracted"
    /\ Len(home_anchors) = 8
    /\ L_EXTERNAL \in Range(home_anchors)
    /\ Len(found_pages) = 4


\* ---------------------------------------------------------------------------
\* scrape_website_contacts: the pages fetched

SuccessfulFetches == {k \in DOMAIN fetch_log : fetch_log[k].outcome = "ok"}

\* C18: in every result, _pages_scraped is the number of pages fetched
\* successfully: a fetch that ended in a network failure or in a non-success
\* HTTP status is not counted, so the count is 0 when the home page failed
\* and is never above 5.
C18_PagesScrapedCountsSuccesses ==
    spc = "returned" /\ "_pages_scraped" \in DOMAIN ret =>
        /\ ret["_pages_scraped"] = Cardinality(SuccessfulFetches)
        /\ home_fetch = "failed" => ret["_pages_scraped"] = 0
        /\ ret["_pages_scraped"] <= 5


SubPageAttempts(log) == [k \in 1..(Len(log) - 1) |-> log[k + 1].page]

\* C19: each sub-page found on the home page is fetched exactly once,
\* whatever the outcome of the others: every step of the loop attempts the
\* next sub-page and keeps the e-mails and social links collected so far,
\* when the loop is left every found sub-page has been attempted once, in
\* order, and the result of a call whose home page was fetched has no error.
C19_SubPagesIndependent ==
    [][ /\ collected_emails \subseteq collected_emails'
        /\ spc = "sub" =>
              /\ Len(fetch_log') = Len(fetch_log) + 1
              /\ fetch_log'[Len(fetch_log')].page = Head(sub_pages)
              /\ collected_socials' = collected_socials
        /\ home_fetch' = "ok" /\ spc' \in {"general", "social", "return", "returned"} =>
              SubPageAttempts(fetch_log') = found_pages'
        /\ home_fetch' = "ok" /\ spc' = "returned" =>
              /\ "error" \notin DOMAIN ret'
              /\ crawl_emails' \subseteq ret'.emails
              /\ ret'.social_media = extract_social_media(home_anchors')
      ]_vars

\* the first of two sub-pages failed on the network, the second was fetched,
\* and the result has an e-mail and the social links of the home page
C19_Witness ==
    /\ spc = "returned"
    /\ Len(found_pages) = 2
    /\ Len(fetch_log) = 3
    /\ fetch_log[2].outcome = "network_error"
    /\ fetch_log[3].outcome = "ok"
    /\ "error" \notin DOMAIN ret
    /\ E_HELLO \in ret.emails
    /\ "facebook" \in DOMAIN ret.social_media


\* ---------------------------------------------------------------------------
\* repair_missing_emails

\* C20: a row without website and with a business name is repaired through
\* the search engine: the call of scrape_website_contacts with the empty URL
\* has issued the fallback queries for the row's name when it returns.
C20_EmptyUrlRunsSearch ==
    /\ rpc \in {"scraping", "done"}
    /\ spc = "returned"
    /\ repair_row.website = <<>>
    /\ repair_row.business_name # <<>>
    => /\ queries # <<>>
       /\ queries[1] = GeneralQuery(repair_row.business_name)


\* ---------------------------------------------------------------------------
\* enrich_businesses and flatten_lead: a task that raised

\* the contacts of line 521 for the exception of task i
RaisedContacts(i) == [error |-> future[i].msg]

\* C21: the lead built from the entry of a business whose enrichment task
\* raised has an error enrichment_status, never partial or success, whatever
\* the message of the exception, the empty message included.
C21_RaisedTaskGivesErrorStatus ==
    Flattened =>
        \A i \in Indices : RaisedAt(i) =>
            \A k \in DOMAIN leads :
                /\ enriched[k].gmaps = businesses[i]
                /\ enriched[k].contacts = RaisedContacts(i)
                => leads[k].enrichment_status.tag = "error"

====
